---- MODULE Spec2Model ----
(***************************************************************************)
(* A model of pkg/gits/gitea.go: the GiteaProvider adapter between the     *)
(* provider-neutral GitProvider interface and the Gitea REST client.       *)
(*                                                                         *)
(* The adapter holds no mutable state.  The state of the model is the      *)
(* state of the Gitea backend the adapter talks to (repositories, hooks,   *)
(* releases), the record of the last GitProvider operation (its arguments, *)
(* the backend requests it issued with their answers, what it returned),   *)
(* and the position of the one operation that is not a single step: the    *)
(* polling loop of ForkRepository.                                         *)
(*                                                                         *)
(* Conventions.  A Go pointer is a sequence of length 0 (nil) or 1.  A Go  *)
(* error is a sequence of strings, the pieces of its text, and the empty   *)
(* sequence is the nil error.  An answer of the Gitea client is a record   *)
(* [val, resp, err]: the object (a pointer), the HTTP status of the        *)
(* *gitea.Response (NilResp when the pointer is nil) and the error.        *)
(***************************************************************************)
EXTENDS Integers, Sequences, FiniteSets, TLC

(***************************************************************************)
(* Bounds of the model.                                                    *)
(***************************************************************************)
\* The longest time, in seconds, one GetRepo poll of ForkRepository takes.
MaxLatency == 1
\* The most CreateRepoHook requests followed for one repository and url.
MaxHookRequests == 2
\* The most pull requests the backend holds, and the most commit statuses.
MaxPulls == 5
MaxStatuses == 3
\* pageSize, the page size of package gits, scaled down.
pageSize == 2

(***************************************************************************)
(* Pointers, errors, client answers.                                       *)
(***************************************************************************)
Nil == <<>>
Ptr(v) == <<v>>
Deref(p) == p[1]

NoErr == <<>>
\* fmt.Errorf(format, args..., err): the pieces of the text, the cause last.
Errorf(prefix, pieces, err) == <<prefix>> \o pieces \o err
\* strings.Contains(err.Error(), s), for a text that is one of the pieces.
ErrContains(err, s) == \E i \in 1..Len(err) : err[i] = s

\* resp == nil, and resp.StatusCode == 404 (http.StatusNotFound).  The other
\* statuses the backend answers with are 200, 201, 409 and 500.
NilResp == 0
StatusNotFound == 404

Answer(val, resp, err) == [val |-> val, resp |-> resp, err |-> err]
\* One logged request of the adapter to the client, with the client's answer.
Call(api, path, body, out) == [api |-> api, path |-> path, body |-> body, out |-> out]

(***************************************************************************)
(* The ways a request can fail for reasons that are not the request's own: *)
(* "none", an HTTP answer with a server error status, or no HTTP answer at *)
(* all (the client returns a nil *Response with the error).                *)
(***************************************************************************)
Faults == {"none", "http", "net"}
FaultAnswer(fault) ==
    IF fault = "http"
    THEN Answer(Nil, 500, <<"500 Internal Server Error">>)
    ELSE Answer(Nil, NilResp, <<"connection refused">>)

(***************************************************************************)
(* The values of the model.                                                *)
(***************************************************************************)
Username == "alice"
Orgs == {"", "acme"}
RepoNames == {"r1"}
UpstreamOrg == "upstream"
RepoKeys == {Username, "acme"} \X RepoNames

VARIABLES
    repos,      \* backend: <<owner, name>> -> pointer to [Private, Fork]
    op,         \* the last GitProvider operation called
    args,       \* its arguments
    calls,      \* the client requests it issued, in order, with their answers
    ret,        \* what it returned: [val, err]
    pc,         \* ForkRepository: "idle", or "sleep" / "poll" inside its loop
    elapsed,    \* ForkRepository: time.Now() - start, in seconds
    sleeps,     \* ForkRepository: the time.Sleep calls made
    polls,      \* ForkRepository: the GetRepo polls made
    pollAt,     \* ForkRepository: elapsed when the last poll was issued
    prevEnd,    \* ForkRepository: elapsed when the last time.Sleep began
    hooks,      \* backend: <<owner, repo>> -> the repository's hooks, in order
    hookRequests, \* the CreateRepoHook requests issued so far, per repository and url
    given,      \* what the backend held of the objects the model does not keep
                \* from call to call (pull requests, statuses, issues), drawn
                \* for the last operation
    pr,         \* the *GitPullRequest passed to the last operation, after it
    releases    \* backend: tag name -> pointer to the release of that tag

vars == <<repos, op, args, calls, ret, pc, elapsed, sleeps, polls, pollAt, prevEnd,
          hooks, hookRequests, given, pr, releases>>
forkVars == <<pc, elapsed, sleeps, polls, pollAt, prevEnd>>
\* The backend state an operation on repositories, and one on hooks, leaves alone.
notRepos == <<hooks, hookRequests, releases>>
notHooks == <<repos, releases>>
notReleases == <<repos, hooks, hookRequests>>

Return(val, err) == [val |-> val, err |-> err]

\* An operation that is passed no *GitPullRequest and reads no drawn object.
NoPull ==
    /\ given' = Nil
    /\ pr' = Nil

\* An operation with no loop: the loop's record is that of no loop at all.
NoLoop ==
    /\ pc' = "idle"
    /\ elapsed' = 0
    /\ sleeps' = 0
    /\ polls' = 0
    /\ pollAt' = 0
    /\ prevEnd' = 0

(***************************************************************************)
(* The backend's repositories, as the client's requests see them.          *)
(***************************************************************************)
HasRepo(rs, owner, name) == <<owner, name>> \in RepoKeys /\ rs[<<owner, name>>] # Nil

\* Client.GetRepo(owner, name)
ClientGetRepo(rs, owner, name, fault) ==
    IF fault # "none" THEN FaultAnswer(fault)
    ELSE IF HasRepo(rs, owner, name)
         THEN Answer(rs[<<owner, name>>], 200, NoErr)
         ELSE Answer(Nil, StatusNotFound, <<"404 Not Found">>)

\* Client.CreateOrgRepo(org, opt) and Client.CreateRepo(opt) (owner: the user):
\* the answer, and the repositories after the request.
ClientCreateRepo(rs, owner, opt, fault) ==
    IF fault # "none" THEN [out |-> FaultAnswer(fault), rs |-> rs]
    ELSE IF HasRepo(rs, owner, opt.Name) \/ <<owner, opt.Name>> \notin RepoKeys
         THEN [out |-> Answer(Nil, 409, <<"409 Conflict">>), rs |-> rs]
         ELSE LET r == [Private |-> opt.Private, Fork |-> FALSE]
              IN  [out |-> Answer(Ptr(r), 201, NoErr),
                   rs  |-> [rs EXCEPT ![<<owner, opt.Name>>] = Ptr(r)]]

\* toGiteaRepo(name, repo)
toGiteaRepo(name, repo) ==
    [AllowMergeCommit |-> TRUE, Fork |-> repo.Fork, Name |-> name,
     Private |-> repo.Private]

(***************************************************************************)
(* CreateRepository(org, name, private)                                    *)
(***************************************************************************)
\* The requests CreateRepository issues: CreateOrgRepo when org is set, and
\* then CreateRepo, whose result and error replace those of the first.
CreateRepositoryRun(rs, org, name, private, f1, f2) ==
    LET options == [Name |-> name, Private |-> private]
        first   == IF Len(org) # 0
                   THEN ClientCreateRepo(rs, org, options, f1)
                   ELSE [out |-> Answer(Nil, NilResp, NoErr), rs |-> rs]
        second  == ClientCreateRepo(first.rs, Username, options, f2)
    IN  [calls |-> (IF Len(org) # 0
                    THEN <<Call("CreateOrgRepo", <<org>>, options, first.out)>>
                    ELSE <<>>)
                   \o <<Call("CreateRepo", <<>>, options, second.out)>>,
         rs    |-> second.rs,
         ret   |-> IF second.out.err # NoErr
                   THEN Return(Nil, Errorf("Failed to create repository",
                                           <<org, name>>, second.out.err))
                   ELSE Return(Ptr(toGiteaRepo(name, Deref(second.out.val))), NoErr)]

CreateRepository(org, name, private, f1, f2) ==
    /\ pc = "idle"
    /\ LET run == CreateRepositoryRun(repos, org, name, private, f1, f2)
       IN  /\ repos' = run.rs
           /\ calls' = run.calls
           /\ ret' = run.ret
    /\ op' = "CreateRepository"
    /\ args' = [org |-> org, name |-> name, private |-> private]
    /\ NoLoop
    /\ NoPull
    /\ UNCHANGED notRepos


(***************************************************************************)
(* ForkRepository(originalOrg, name, destinationOrg)                       *)
(***************************************************************************)
\* time.Sleep(5 * time.Second) and start.Add(time.Minute), in seconds.
PollInterval == 5
Minute == 60

ForkOutcomes == Faults \cup {"later"}

\* A variant that leaves out the default to the user's name.
ForkOwnerNoDefault(destinationOrg) == destinationOrg

\* owner := destinationOrg; if owner == "" { owner = p.Username }
ForkOwner(destinationOrg) == IF destinationOrg = "" THEN Username ELSE destinationOrg

\* Client.CreateFork(originalOrg, name, {Organization: &destinationOrg}): the
\* backend either makes the fork at once, or answers that it is still being
\* made ("later"), or fails.
ClientCreateFork(rs, originalOrg, name, destinationOrg, outcome) ==
    LET owner == ForkOwner(destinationOrg)
    IN  IF outcome = "later"
        THEN [out |-> Answer(Nil, 500, <<"try again later">>), rs |-> rs]
        ELSE IF outcome # "none" THEN [out |-> FaultAnswer(outcome), rs |-> rs]
        ELSE IF HasRepo(rs, owner, name)
        THEN [out |-> Answer(Nil, 409, <<"409 Conflict">>), rs |-> rs]
        ELSE LET r == [Private |-> FALSE, Fork |-> TRUE]
             IN  [out |-> Answer(Ptr(r), 201, NoErr),
                  rs  |-> [rs EXCEPT ![<<owner, name>>] = Ptr(r)]]

\* strings.Contains(err.Error(), "try again later")
IsRetryLater(err) == ErrContains(err, "try again later")

\* repo != nil && err == nil
ForkFound(out) == out.val # Nil /\ out.err = NoErr

\* A variant that tests !time.Now().Before(deadline).
PastDeadlineNotBefore(e) == e >= Minute

\* time.Now().After(deadline), with deadline = start + time.Minute
PastDeadline(e) == e > Minute

\* The clock after time.Sleep(5 * time.Second)
AfterSleep(e) == e + PollInterval

\* The call, up to the polling loop: CreateFork, and what is decided at once.
ForkRepository(originalOrg, name, destinationOrg, outcome) ==
    /\ pc = "idle"
    /\ LET run == ClientCreateFork(repos, originalOrg, name, destinationOrg, outcome)
           err == run.out.err
           msg == IF destinationOrg # "" THEN <<" to", destinationOrg>> ELSE <<>>
       IN  /\ repos' = run.rs
           /\ calls' = <<Call("CreateFork", <<originalOrg, name>>,
                              [Organization |-> destinationOrg], run.out)>>
           /\ IF err = NoErr
              THEN /\ ret' = Return(Ptr(toGiteaRepo(name, Deref(run.out.val))), NoErr)
                   /\ pc' = "idle"
              ELSE IF IsRetryLater(err)
              THEN /\ ret' = Return(Nil, NoErr)
                   /\ pc' = "sleep"
              ELSE /\ ret' = Return(Nil, Errorf("Failed to fork repository",
                                                <<originalOrg, name>> \o msg, err))
                   /\ pc' = "idle"
    /\ op' = "ForkRepository"
    /\ args' = [originalOrg |-> originalOrg, name |-> name,
                destinationOrg |-> destinationOrg]
    /\ elapsed' = 0
    /\ sleeps' = 0
    /\ polls' = 0
    /\ pollAt' = 0
    /\ prevEnd' = 0
    /\ NoPull
    /\ UNCHANGED notRepos

\* time.Sleep(5 * time.Second), at the head of the loop
ForkSleep ==
    /\ pc = "sleep"
    /\ prevEnd' = elapsed
    /\ elapsed' = AfterSleep(elapsed)
    /\ sleeps' = sleeps + 1
    /\ pc' = "poll"
    /\ UNCHANGED <<repos, op, args, calls, ret, polls, pollAt, given, pr>>
    /\ UNCHANGED notRepos

\* One turn of the loop after the sleep: GetRepo, which takes `latency`
\* seconds, then the tests of its answer and of the deadline.  calls keeps
\* the CreateFork request and the latest poll.
ForkPoll(fault, latency) ==
    /\ pc = "poll"
    /\ LET owner == ForkOwner(args.destinationOrg)
           out   == ClientGetRepo(repos, owner, args.name, fault)
           now   == elapsed + latency
       IN  /\ calls' = <<calls[1], Call("GetRepo", <<owner, args.name>>, <<>>, out)>>
           /\ pollAt' = elapsed
           /\ elapsed' = now
           /\ IF ForkFound(out)
              THEN /\ ret' = Return(Ptr(toGiteaRepo(args.name, Deref(out.val))), NoErr)
                   /\ pc' = "idle"
              ELSE IF PastDeadline(now)
              THEN /\ ret' = Return(Nil, Errorf("Gave up waiting for Repository",
                                                <<owner, args.name>>, out.err))
                   /\ pc' = "idle"
              ELSE /\ ret' = ret
                   /\ pc' = "sleep"
    /\ polls' = polls + 1
    /\ UNCHANGED <<repos, op, args, sleeps, prevEnd, given, pr>>
    /\ UNCHANGED notRepos

\* The backend finishes making a fork it answered "try again later" for,
\* while the adapter waits.
BackendFinishesFork ==
    /\ pc \in {"sleep", "poll"}
    /\ LET owner == ForkOwner(args.destinationOrg)
       IN  /\ ~HasRepo(repos, owner, args.name)
           /\ repos' = [repos EXCEPT ![<<owner, args.name>>] =
                                         Ptr([Private |-> FALSE, Fork |-> TRUE])]
    /\ UNCHANGED <<op, args, calls, ret, given, pr>>
    /\ UNCHANGED forkVars
    /\ UNCHANGED notRepos

(***************************************************************************)
(* ValidateRepositoryName(org, name)                                       *)
(***************************************************************************)
\* A variant that takes any HTTP answer for "not found".
ValidateRepositoryNameAnyResp(out, org, name) ==
    IF out.err = NoErr
    THEN <<"Repository", org, name, "already exists">>
    ELSE IF out.resp # NilResp
    THEN NoErr
    ELSE out.err

ValidateRepositoryNameRet(out, org, name) ==
    IF out.err = NoErr
    THEN <<"Repository", org, name, "already exists">>
    ELSE IF out.resp # NilResp /\ out.resp = StatusNotFound
    THEN NoErr
    ELSE out.err

ValidateRepositoryName(org, name, fault) ==
    /\ pc = "idle"
    /\ LET out == ClientGetRepo(repos, org, name, fault)
       IN  /\ calls' = <<Call("GetRepo", <<org, name>>, <<>>, out)>>
           /\ ret' = Return(Nil, ValidateRepositoryNameRet(out, org, name))
    /\ op' = "ValidateRepositoryName"
    /\ args' = [org |-> org, name |-> name]
    /\ UNCHANGED repos
    /\ NoLoop
    /\ NoPull
    /\ UNCHANGED notRepos


(***************************************************************************)
(* CreateWebHook(data)                                                     *)
(***************************************************************************)
\* data.Owner, data.Repo.Name, data.URL and data.Secret of the calls.
HookOwners == {"", Username}
HookRepos == {"", "r1"}
HookURLs == {"", "u1", "u2"}
HookSecrets == {"", "s"}
\* The answers of the two requests of CreateWebHook: CreateWebHook tells an
\* error from none, and no error from another.
HookFaults == {"none", "http"}
HookKeys == {Username} \X {"r1"}
\* The *GitWebHookArguments of the calls.
WebHookArguments ==
    [Owner : HookOwners, Repo : [Name : HookRepos], URL : HookURLs,
     Secret : HookSecrets]

\* m[key] of a Go map: the zero value "" for a key the map does not hold.
MapGet(m, key) == IF key \in DOMAIN m THEN m[key] ELSE ""

\* Client.ListRepoHooks(owner, repo, opt)
ClientListRepoHooks(hs, owner, repo, fault) ==
    IF fault # "none" THEN FaultAnswer(fault)
    ELSE IF <<owner, repo>> \in HookKeys
         THEN Answer(hs[<<owner, repo>>], 200, NoErr)
         ELSE Answer(<<>>, 404, <<"404 Not Found">>)

\* Client.CreateRepoHook(owner, repo, opt): the answer, and the hooks after it.
\* The backend keeps a hook's secret to itself: the hook it stores and lists
\* has the url and the content type.
ClientCreateRepoHook(hs, owner, repo, opt, fault) ==
    IF fault # "none" THEN [out |-> FaultAnswer(fault), hs |-> hs]
    ELSE IF <<owner, repo>> \notin HookKeys
         THEN [out |-> Answer(Nil, 404, <<"404 Not Found">>), hs |-> hs]
         ELSE LET h == [opt EXCEPT !.Config =
                           [k \in DOMAIN opt.Config \ {"secret"} |-> opt.Config[k]]]
              IN  [out |-> Answer(Ptr(h), 201, NoErr),
                   hs  |-> [hs EXCEPT ![<<owner, repo>>] = Append(@, h)]]

\* A variant of the loop that reads a key the config does not hold.
HasHookForWrongKey(list, webhookUrl) ==
    \E i \in 1..Len(list) : MapGet(list[i].Config, "URL") = webhookUrl

\* for _, hook := range hooks { if hook.Config["url"] == webhookUrl ... }
HasHookFor(list, webhookUrl) ==
    \E i \in 1..Len(list) : MapGet(list[i].Config, "url") = webhookUrl

\* The gitea.CreateHookOption CreateWebHook builds.
HookOption(webhookUrl, secret) ==
    [Type   |-> "gitea",
     Config |-> IF secret # ""
                THEN [k \in {"url", "content_type", "secret"} |->
                         IF k = "url" THEN webhookUrl
                         ELSE IF k = "secret" THEN secret ELSE "json"]
                ELSE [k \in {"url", "content_type"} |->
                         IF k = "url" THEN webhookUrl ELSE "json"],
     Events |-> <<"create", "push", "pull_request">>,
     Active |-> TRUE]

\* The run of CreateWebHook: its requests, the hooks after it, its error.
CreateWebHookRun(hs, data, fList, fCreate) ==
    LET owner      == IF data.Owner = "" THEN Username ELSE data.Owner
        repo       == data.Repo.Name
        webhookUrl == data.URL
        listed     == ClientListRepoHooks(hs, owner, repo, fList)
        listCall   == Call("ListRepoHooks", <<owner, repo>>, <<>>, listed)
        hook       == HookOption(webhookUrl, data.Secret)
        created    == ClientCreateRepoHook(hs, owner, repo, hook, fCreate)
        createCall == Call("CreateRepoHook", <<owner, repo>>, hook, created.out)
    IN  IF repo = ""
        THEN [calls |-> <<>>, hs |-> hs, err |-> <<"Missing property Repo">>]
        ELSE IF repo = ""
        THEN [calls |-> <<>>, hs |-> hs, err |-> <<"Missing property URL">>]
        ELSE IF listed.err # NoErr
        THEN [calls |-> <<listCall>>, hs |-> hs, err |-> listed.err]
        ELSE IF HasHookFor(listed.val, webhookUrl)
        THEN [calls |-> <<listCall>>, hs |-> hs, err |-> NoErr]
        ELSE [calls |-> <<listCall, createCall>>, hs |-> created.hs,
              err   |-> IF created.out.err # NoErr
                        THEN Errorf("Failed to create webhook", <<owner, repo>>,
                                    created.out.err)
                        ELSE created.out.err]

\* The CreateRepoHook requests counted, per repository and url.
CountHookRequests(count, runCalls) ==
    IF Len(runCalls) = 2
    THEN LET c == runCalls[2]
         IN  [count EXCEPT ![<<c.path[1], c.path[2]>>][MapGet(c.body.Config, "url")] = @ + 1]
    ELSE count

CreateWebHook(data, fList, fCreate) ==
    /\ pc = "idle"
    /\ LET run == CreateWebHookRun(hooks, data, fList, fCreate)
           cnt == CountHookRequests(hookRequests, run.calls)
       IN  /\ \A k \in HookKeys, u \in HookURLs : cnt[k][u] <= MaxHookRequests
           /\ hooks' = run.hs
           /\ hookRequests' = cnt
           /\ calls' = run.calls
           /\ ret' = Return(Nil, run.err)
    /\ op' = "CreateWebHook"
    /\ args' = data
    /\ NoLoop
    /\ NoPull
    /\ UNCHANGED notHooks


(***************************************************************************)
(* Pull requests: ListOpenPullRequests, UpdatePullRequestStatus,           *)
(* MergePullRequest, AddPRComment, PullRequestLastCommitStatus.            *)
(***************************************************************************)
\* A *GitPullRequest as a caller passes it: the fields it sets, the rest zero.
GitPullRequest(owner, repo, number, title, sha) ==
    [URL |-> "", Owner |-> owner, Repo |-> repo, Number |-> number,
     Title |-> title, Body |-> "", LastCommitSha |-> sha, Author |-> Nil,
     Merged |-> Nil, Mergeable |-> Nil, MergedAt |-> Nil, MergeCommitSHA |-> Nil,
     State |-> Nil]

\* The *GitPullRequest values passed in: with and without Number and
\* LastCommitSha.
PullRequests ==
    {GitPullRequest("acme", "r1", number, "title", sha) :
        number \in {Nil, Ptr(1)}, sha \in {"", "sha1"}}

\* The backend's pull request with index i (a *gitea.PullRequest): the odd
\* ones open with a head, the even ones merged and with no head.
GiteaPull(i) ==
    [Index |-> i, URL |-> "pulls", Title |-> "backend title", Body |-> "backend body",
     State |-> IF i % 2 = 1 THEN "open" ELSE "closed",
     HasMerged |-> i % 2 = 0, Mergeable |-> i % 2 = 1,
     Merged |-> IF i % 2 = 0 THEN Ptr("merge time") ELSE Nil,
     MergedCommitID |-> IF i % 2 = 0 THEN Ptr("merge sha") ELSE Nil,
     Head |-> IF i % 2 = 1 THEN Ptr([Sha |-> "sha2"]) ELSE Nil,
     Poster |-> [UserName |-> "bob"]]

\* The pull requests the backend answers GetPullRequest with.
GiteaPulls == {GiteaPull(i) : i \in 1..2}

\* updatePullRequest(pr, source)
updatePullRequest(p, source) ==
    [p EXCEPT !.Author = Ptr([Login |-> source.Poster.UserName]),
              !.Merged = Ptr(source.HasMerged),
              !.Mergeable = Ptr(source.Mergeable),
              !.MergedAt = source.Merged,
              !.MergeCommitSHA = source.MergedCommitID,
              !.Title = source.Title,
              !.Body = source.Body,
              !.State = Ptr(source.State),
              !.LastCommitSha = IF source.Head # Nil THEN Deref(source.Head).Sha ELSE ""]

\* toPullRequest(owner, repo, pr)
toPullRequest(owner, repo, source) ==
    updatePullRequest([GitPullRequest(owner, repo, Ptr(source.Index), "", "")
                          EXCEPT !.URL = source.URL],
                      source)

\* Client.ListRepoPullRequests(owner, repo, opt): the page opt.Page of the
\* backend's pull requests, pageSize to a page, the pages numbered as
\* ListOpenPullRequests numbers them: from the zero value of opt.Page.
ClientListRepoPullRequests(all, page, fault) ==
    IF fault # "none" THEN FaultAnswer(fault)
    ELSE LET from == page * pageSize + 1
             to   == IF (page + 1) * pageSize < Len(all)
                     THEN (page + 1) * pageSize ELSE Len(all)
         IN  Answer(SubSeq(all, from, to), 200, NoErr)

\* A variant of the loop's exit that also stops after a full page.
LastPageOrFull(n) == n <= pageSize \/ n = 0

\* len(prs) < pageSize || len(prs) == 0
LastPage(n) == n < pageSize \/ n = 0

\* The loop of ListOpenPullRequests from page opt.Page on, the request for
\* page failPage failing: the requests, the answer and the error.
RECURSIVE ListOpenPullRequestsLoop(_, _, _, _, _, _, _)
ListOpenPullRequestsLoop(all, owner, repo, page, answer, requests, failPage) ==
    LET out  == ClientListRepoPullRequests(all, page,
                                           IF page = failPage THEN "http" ELSE "none")
        reqs == Append(requests,
                       Call("ListRepoPullRequests", <<owner, repo>>, [Page |-> page], out))
    IN  IF out.err # NoErr
        THEN [calls |-> reqs, ret |-> Return(answer, out.err)]
        ELSE LET more == answer \o [i \in 1..Len(out.val) |->
                                       toPullRequest(owner, repo, out.val[i])]
             IN  IF LastPage(Len(out.val))
                 THEN [calls |-> reqs, ret |-> Return(more, NoErr)]
                 ELSE ListOpenPullRequestsLoop(all, owner, repo, page + 1, more, reqs,
                                               failPage)

\* ListOpenPullRequests(owner, repo), the backend holding n pull requests.
ListOpenPullRequests(owner, repo, n, failPage) ==
    /\ pc = "idle"
    /\ LET all == [i \in 1..n |-> GiteaPull(i)]
           run == ListOpenPullRequestsLoop(all, owner, repo, 0, <<>>, <<>>, failPage)
       IN  /\ given' = all
           /\ calls' = run.calls
           /\ ret' = run.ret
    /\ op' = "ListOpenPullRequests"
    /\ args' = [owner |-> owner, repo |-> repo]
    /\ pr' = Nil
    /\ NoLoop
    /\ UNCHANGED <<repos, hooks, hookRequests, releases>>

\* UpdatePullRequestStatus(pr), the backend holding `source` for the number.
UpdatePullRequestStatusRun(p, source, fault) ==
    IF p.Number = Nil
    THEN [calls |-> <<>>, pr |-> p, err |-> <<"Missing Number for GitPullRequest">>]
    ELSE LET n   == Deref(p.Number)
             out == IF fault # "none" THEN FaultAnswer(fault)
                    ELSE Answer(Ptr(source), 200, NoErr)
             req == Call("GetPullRequest", <<p.Owner, p.Repo>>, [Index |-> n], out)
         IN  IF out.err # NoErr
             THEN [calls |-> <<req>>, pr |-> p,
                   err |-> Errorf("Could not find pull request for",
                                  <<p.Owner, p.Repo>>, out.err)]
             ELSE [calls |-> <<req>>, pr |-> updatePullRequest(p, Deref(out.val)),
                   err |-> NoErr]

UpdatePullRequestStatus(p, source, fault) ==
    /\ pc = "idle"
    /\ LET run == UpdatePullRequestStatusRun(p, source, fault)
       IN  /\ calls' = run.calls
           /\ pr' = run.pr
           /\ ret' = Return(Nil, run.err)
    /\ op' = "UpdatePullRequestStatus"
    /\ args' = [pr |-> p]
    /\ given' = <<source>>
    /\ NoLoop
    /\ UNCHANGED <<repos, hooks, hookRequests, releases>>

\* MergePullRequest(pr, message)
MergePullRequestRun(p, message, fault) ==
    IF p.Number = Nil
    THEN [calls |-> <<>>, err |-> <<"Missing Number for GitPullRequest">>]
    ELSE LET n   == Deref(p.Number)
             out == IF fault # "none" THEN FaultAnswer(fault)
                    ELSE Answer(TRUE, 200, NoErr)
         IN  [calls |-> <<Call("MergePullRequest", <<p.Owner, p.Repo>>,
                               [Index |-> n, Style |-> "merge",
                                Title |-> <<p.Title, " (#", n, ")">>,
                                Message |-> message], out)>>,
              err   |-> out.err]

MergePullRequest(p, message, fault) ==
    /\ pc = "idle"
    /\ LET run == MergePullRequestRun(p, message, fault)
       IN  /\ calls' = run.calls
           /\ ret' = Return(Nil, run.err)
    /\ pr' = p
    /\ op' = "MergePullRequest"
    /\ args' = [pr |-> p, message |-> message]
    /\ given' = Nil
    /\ NoLoop
    /\ UNCHANGED <<repos, hooks, hookRequests, releases>>

\* A variant that sends the comment before it looks at the number.
AddPRCommentUnchecked(p, comment, fault) ==
    LET out == IF fault # "none" THEN FaultAnswer(fault)
               ELSE Answer(Ptr([Body |-> comment]), 201, NoErr)
    IN  [calls |-> <<Call("CreateIssueComment", <<p.Owner, p.Repo>>,
                          [Index |-> p.Number, Body |-> comment], out)>>,
         err   |-> IF p.Number = Nil
                   THEN <<"Missing Number for GitPullRequest">> ELSE out.err]

\* AddPRComment(pr, comment)
AddPRCommentRun(p, comment, fault) ==
    IF p.Number = Nil
    THEN [calls |-> <<>>, err |-> <<"Missing Number for GitPullRequest">>]
    ELSE LET n   == Deref(p.Number)
             out == IF fault # "none" THEN FaultAnswer(fault)
                    ELSE Answer(Ptr([Body |-> comment]), 201, NoErr)
         IN  [calls |-> <<Call("CreateIssueComment", <<p.Owner, p.Repo>>,
                               [Index |-> n, Body |-> comment], out)>>,
              err   |-> out.err]

AddPRComment(p, comment, fault) ==
    /\ pc = "idle"
    /\ LET run == AddPRCommentRun(p, comment, fault)
       IN  /\ calls' = run.calls
           /\ ret' = Return(Nil, run.err)
    /\ pr' = p
    /\ op' = "AddPRComment"
    /\ args' = [pr |-> p, comment |-> comment]
    /\ given' = Nil
    /\ NoLoop
    /\ UNCHANGED <<repos, hooks, hookRequests, releases>>

\* The states a commit status carries, "" for one that has none, and the
\* lists of statuses the backend holds for a commit.
StatusStates == {"", "success", "failure"}
RECURSIVE StatusLists(_)
StatusLists(len) ==
    IF len = 0 THEN {<<>>}
    ELSE LET shorter == StatusLists(len - 1)
         IN  shorter \cup {Append(l, [State |-> st]) :
                              l \in {x \in shorter : Len(x) = len - 1},
                              st \in StatusStates}

\* The results the backend answers ListStatuses with.
StatusResults == StatusLists(MaxStatuses)

\* A variant of the loop that returns the last state that is not empty.
LastNonEmptyState(results) ==
    LET set == {i \in 1..Len(results) : results[i].State # ""}
    IN  IF set = {} THEN Nil
        ELSE Ptr(results[CHOOSE i \in set : \A j \in set : j <= i].State)

\* for _, result := range results { text := string(result.State);
\* if text != "" { return text, nil } }: the state returned from the loop,
\* nil when the loop ends with none.
RECURSIVE FirstNonEmptyState(_)
FirstNonEmptyState(results) ==
    IF results = <<>> THEN Nil
    ELSE IF Head(results).State # "" THEN Ptr(Head(results).State)
    ELSE FirstNonEmptyState(Tail(results))

\* PullRequestLastCommitStatus(pr), the backend holding `statuses` for the ref.
PullRequestLastCommitStatusRun(p, statuses, fault) ==
    LET ref == p.LastCommitSha
        out == IF fault # "none" THEN FaultAnswer(fault)
               ELSE Answer(statuses, 200, NoErr)
        req == Call("ListStatuses", <<p.Owner, p.Repo>>, [Ref |-> ref], out)
    IN  IF ref = ""
        THEN [calls |-> <<>>, ret |-> Return("", <<"Missing String for LastCommitSha">>)]
        ELSE IF out.err # NoErr
        THEN [calls |-> <<req>>, ret |-> Return("", out.err)]
        ELSE LET found == FirstNonEmptyState(out.val)
             IN  IF found # Nil
                 THEN [calls |-> <<req>>, ret |-> Return(Deref(found), NoErr)]
                 ELSE [calls |-> <<req>>,
                       ret   |-> Return("", <<"Could not find a status for repository",
                                              p.Owner, p.Repo, ref>>)]

PullRequestLastCommitStatus(p, statuses, fault) ==
    /\ pc = "idle"
    /\ LET run == PullRequestLastCommitStatusRun(p, statuses, fault)
       IN  /\ calls' = run.calls
           /\ ret' = run.ret
    /\ pr' = p
    /\ op' = "PullRequestLastCommitStatus"
    /\ args' = [pr |-> p]
    /\ given' = statuses
    /\ NoLoop
    /\ UNCHANGED <<repos, hooks, hookRequests, releases>>

(***************************************************************************)
(* GetIssue(org, name, number)                                             *)
(***************************************************************************)
\* The backend's issue with index `number` (a *gitea.Issue).
GiteaIssue(number) ==
    [ID |-> number + 100, Index |-> number, Title |-> "issue", Body |-> "text",
     State |-> "open", PullRequest |-> Nil, Poster |-> [UserName |-> "bob"]]

\* What the backend holds for the issue number asked for: nothing, or an issue.
Issues == {Nil, Ptr(GiteaIssue(1))}

\* fromGiteaIssue(org, name, i)
fromGiteaIssue(org, name, i) ==
    [Number |-> Ptr(i.ID), State |-> Ptr(i.State), Title |-> i.Title, Body |-> i.Body,
     IsPullRequest |-> i.PullRequest # Nil, User |-> Ptr([Login |-> i.Poster.UserName])]

\* Client.GetIssue(org, name, number), the backend holding `issue` (nil: none).
ClientGetIssue(issue, fault) ==
    IF fault # "none" THEN FaultAnswer(fault)
    ELSE IF issue # Nil THEN Answer(issue, 200, NoErr)
    ELSE Answer(Nil, StatusNotFound, <<"404 Not Found">>)

\* A variant that takes a missing response for "not found" too.
GetIssueRetNilResp(out, org, name) ==
    IF out.err # NoErr
    THEN IF out.resp = NilResp \/ out.resp = StatusNotFound
         THEN Return(Nil, NoErr)
         ELSE Return(Nil, out.err)
    ELSE Return(Ptr(fromGiteaIssue(org, name, Deref(out.val))), NoErr)

\* What GetIssue returns for the client's answer.
GetIssueRet(out, org, name) ==
    IF out.err # NoErr
    THEN IF out.resp # NilResp /\ out.resp = StatusNotFound
         THEN Return(Nil, NoErr)
         ELSE Return(Nil, out.err)
    ELSE Return(Ptr(fromGiteaIssue(org, name, Deref(out.val))), NoErr)

GetIssue(org, name, number, issue, fault) ==
    /\ pc = "idle"
    /\ LET out == ClientGetIssue(issue, fault)
       IN  /\ calls' = <<Call("GetIssue", <<org, name>>, [Index |-> number], out)>>
           /\ ret' = GetIssueRet(out, org, name)
    /\ op' = "GetIssue"
    /\ args' = [org |-> org, name |-> name, number |-> number]
    /\ given' = issue
    /\ pr' = Nil
    /\ NoLoop
    /\ UNCHANGED <<repos, hooks, hookRequests, releases>>


(***************************************************************************)
(* Releases: UpdateRelease, UpdateReleaseStatus.                           *)
(***************************************************************************)
\* The tag of the releases followed, and the *GitRelease values passed in:
\* TagName, Name, Body and PreRelease set or left at their zero value.
ReleaseTags == {"v1"}
ReleaseInfos ==
    [TagName : {"", "v1"}, Name : {"", "new title"}, Body : {"", "new notes"},
     PreRelease : BOOLEAN, URL : {""}]

\* A release somebody else published (a *gitea.Release), as the client decodes
\* it: tag_name, name and body present in the answer or left out of it.
PublishedReleases ==
    [ID : {1}, TagName : {""} \cup ReleaseTags, Title : {"", "old title"},
     Note : {"", "old notes"}, IsDraft : {FALSE}, IsPrerelease : {FALSE},
     URL : {"release url"}]

\* Client.GetReleaseByTag(owner, repo, tag)
ClientGetReleaseByTag(rels, tag, fault) ==
    IF fault # "none" THEN FaultAnswer(fault)
    ELSE IF rels[tag] # Nil THEN Answer(rels[tag], 200, NoErr)
    ELSE Answer(Nil, StatusNotFound, <<"404 Not Found">>)

\* Client.CreateRelease(owner, repo, opt): the answer and the releases after.
ClientCreateRelease(rels, opt, fault) ==
    IF fault # "none" THEN [out |-> FaultAnswer(fault), rels |-> rels]
    ELSE IF opt.TagName \notin ReleaseTags
         THEN [out |-> Answer(Nil, 422, <<"422 Unprocessable Entity">>), rels |-> rels]
    ELSE IF rels[opt.TagName] # Nil
         THEN [out |-> Answer(Nil, 409, <<"409 Conflict">>), rels |-> rels]
         ELSE LET r == [ID |-> 1, TagName |-> opt.TagName, Title |-> opt.Title,
                        Note |-> opt.Note, IsDraft |-> opt.IsDraft,
                        IsPrerelease |-> opt.IsPrerelease, URL |-> "release url"]
              IN  [out |-> Answer(Ptr(r), 201, NoErr),
                   rels |-> [rels EXCEPT ![opt.TagName] = Ptr(r)]]

\* Client.EditRelease(owner, repo, id, opt): the backend changes the fields
\* the request sets (a string that is not empty, a pointer that is not nil).
ClientEditRelease(rels, id, opt, fault) ==
    LET tags == {t \in ReleaseTags : rels[t] # Nil /\ Deref(rels[t]).ID = id}
    IN  IF fault # "none" THEN [out |-> FaultAnswer(fault), rels |-> rels]
        ELSE IF tags = {}
        THEN [out |-> Answer(Nil, StatusNotFound, <<"404 Not Found">>), rels |-> rels]
        ELSE LET tag == CHOOSE t \in tags : TRUE
                 cur == Deref(rels[tag])
                 new == [cur EXCEPT
                            !.TagName = IF opt.TagName # "" THEN opt.TagName ELSE @,
                            !.Title = IF opt.Title # "" THEN opt.Title ELSE @,
                            !.Note = IF opt.Note # "" THEN opt.Note ELSE @,
                            !.IsDraft = IF opt.IsDraft # Nil THEN Deref(opt.IsDraft) ELSE @,
                            !.IsPrerelease = IF opt.IsPrerelease # Nil
                                             THEN Deref(opt.IsPrerelease) ELSE @]
             IN  [out  |-> Answer(Ptr(new), 200, NoErr),
                  rels |-> [rels EXCEPT ![tag] = Ptr(new)]]

\* A variant that takes the caller's value whenever the caller gives one.
FillFieldFromCaller(current, supplied) == IF supplied # "" THEN supplied ELSE current

\* if editRelease.X == "" && releaseInfo.X != "" { editRelease.X = releaseInfo.X }
FillField(current, supplied) ==
    IF current = "" /\ supplied # "" THEN supplied ELSE current

\* The gitea.EditReleaseOption UpdateRelease builds.
UpdateReleaseEdit(release, releaseInfo) ==
    [TagName      |-> FillField(release.TagName, releaseInfo.TagName),
     Title        |-> FillField(release.Title, releaseInfo.Name),
     Note         |-> FillField(release.Note, releaseInfo.Body),
     IsDraft      |-> Ptr(FALSE),
     IsPrerelease |-> Ptr(FALSE)]

\* The run of UpdateRelease: its requests, the releases after it, the
\* *GitRelease after it and its error.
UpdateReleaseRun(rels, owner, repo, tag, releaseInfo, fFetch, fWrite) ==
    LET fetched   == ClientGetReleaseByTag(rels, tag, fFetch)
        fetchCall == Call("GetReleaseByTag", <<owner, repo>>, [Tag |-> tag], fetched)
        release   == fetched.val
        err       == fetched.err
    IN  IF err # NoErr /\ (fetched.resp = NilResp \/ fetched.resp # StatusNotFound)
        THEN [calls |-> <<fetchCall>>, rels |-> rels, info |-> releaseInfo, err |-> err]
        ELSE IF release = Nil
        THEN LET createRelease == [TagName |-> releaseInfo.TagName,
                                   Title |-> releaseInfo.Name,
                                   Note |-> releaseInfo.Body,
                                   IsDraft |-> FALSE, IsPrerelease |-> FALSE]
                 created == ClientCreateRelease(rels, createRelease, fWrite)
             IN  [calls |-> <<fetchCall, Call("CreateRelease", <<owner, repo>>,
                                              createRelease, created.out)>>,
                  rels  |-> created.rels,
                  info  |-> releaseInfo,
                  err   |-> created.out.err]
        ELSE LET editRelease == UpdateReleaseEdit(Deref(release), releaseInfo)
                 edited == ClientEditRelease(rels, Deref(release).ID, editRelease, fWrite)
                 r2     == edited.out.val
             IN  [calls |-> <<fetchCall, Call("EditRelease", <<owner, repo>>,
                                              [ID |-> Deref(release).ID,
                                               Option |-> editRelease], edited.out)>>,
                  rels  |-> edited.rels,
                  info  |-> IF edited.out.err = NoErr /\ r2 # Nil
                            THEN [releaseInfo EXCEPT !.URL = Deref(r2).URL]
                            ELSE releaseInfo,
                  err   |-> IF edited.out.err # NoErr THEN edited.out.err ELSE err]

UpdateRelease(owner, repo, tag, releaseInfo, fFetch, fWrite) ==
    /\ pc = "idle"
    /\ LET run == UpdateReleaseRun(releases, owner, repo, tag, releaseInfo, fFetch, fWrite)
       IN  /\ releases' = run.rels
           /\ calls' = run.calls
           /\ ret' = Return(run.info, run.err)
    /\ op' = "UpdateRelease"
    /\ args' = [owner |-> owner, repo |-> repo, tag |-> tag, releaseInfo |-> releaseInfo]
    /\ NoLoop
    /\ NoPull
    /\ UNCHANGED notReleases

\* A variant that sets the pre-release field in every edit.
UpdateReleaseStatusEditAlways(release, releaseInfo) ==
    [TagName      |-> release.TagName,
     Title        |-> release.Title,
     Note         |-> release.Note,
     IsDraft      |-> Ptr(FALSE),
     IsPrerelease |-> Ptr(releaseInfo.PreRelease)]

\* The gitea.EditReleaseOption UpdateReleaseStatus builds.
UpdateReleaseStatusEdit(release, releaseInfo) ==
    [TagName      |-> release.TagName,
     Title        |-> release.Title,
     Note         |-> release.Note,
     IsDraft      |-> Ptr(FALSE),
     IsPrerelease |-> IF release.IsPrerelease # releaseInfo.PreRelease
                      THEN Ptr(releaseInfo.PreRelease) ELSE Nil]

\* The run of UpdateReleaseStatus.
UpdateReleaseStatusRun(rels, owner, repo, tag, releaseInfo, fFetch, fWrite) ==
    LET fetched   == ClientGetReleaseByTag(rels, tag, fFetch)
        fetchCall == Call("GetReleaseByTag", <<owner, repo>>, [Tag |-> tag], fetched)
    IN  IF fetched.err # NoErr
        THEN [calls |-> <<fetchCall>>, rels |-> rels, err |-> fetched.err]
        ELSE LET release     == Deref(fetched.val)
                 editRelease == UpdateReleaseStatusEdit(release, releaseInfo)
                 edited      == ClientEditRelease(rels, release.ID, editRelease, fWrite)
             IN  [calls |-> <<fetchCall, Call("EditRelease", <<owner, repo>>,
                                              [ID |-> release.ID, Option |-> editRelease],
                                              edited.out)>>,
                  rels  |-> edited.rels,
                  err   |-> edited.out.err]

UpdateReleaseStatus(owner, repo, tag, releaseInfo, fFetch, fWrite) ==
    /\ pc = "idle"
    /\ LET run == UpdateReleaseStatusRun(releases, owner, repo, tag, releaseInfo,
                                         fFetch, fWrite)
       IN  /\ releases' = run.rels
           /\ calls' = run.calls
           /\ ret' = Return(releaseInfo, run.err)
    /\ op' = "UpdateReleaseStatus"
    /\ args' = [owner |-> owner, repo |-> repo, tag |-> tag, releaseInfo |-> releaseInfo]
    /\ NoLoop
    /\ NoPull
    /\ UNCHANGED notReleases

\* What Client.CreateReleaseAttachment can answer for a release that exists:
\* the attachment, an error, or neither an attachment nor an error.
UploadOutcomes == {"created", "http", "net", "nothing"}
ReleaseIDs == {1, 2}
AssetNames == {"asset"}

\* Client.CreateReleaseAttachment(org, repo, id, asset, name)
ClientCreateReleaseAttachment(rels, id, name, outcome) ==
    IF outcome \in {"http", "net"} THEN FaultAnswer(outcome)
    ELSE IF \A t \in ReleaseTags : rels[t] = Nil \/ Deref(rels[t]).ID # id
    THEN Answer(Nil, StatusNotFound, <<"404 Not Found">>)
    ELSE IF outcome = "nothing" THEN Answer(Nil, 201, NoErr)
    ELSE Answer(Ptr([ID |-> 7, Name |-> name, DownloadURL |-> "download url"]),
                201, NoErr)

\* The value UploadReleaseAsset returns for the client's answer.
UploadReleaseAssetRet(out) ==
    LET a   == out.val
        err == out.err
    IN  IF a = Nil \/ err # NoErr
        THEN Return(Nil, err)
        ELSE Return(Ptr([ID |-> Deref(a).ID,
                         BrowserDownloadURL |-> Deref(a).DownloadURL,
                         Name |-> Deref(a).Name]), NoErr)

UploadReleaseAsset(org, repo, id, name, outcome) ==
    /\ pc = "idle"
    /\ LET out == ClientCreateReleaseAttachment(releases, id, name, outcome)
       IN  /\ calls' = <<Call("CreateReleaseAttachment", <<org, repo>>,
                              [ID |-> id, Name |-> name], out)>>
           /\ ret' = UploadReleaseAssetRet(out)
    /\ op' = "UploadReleaseAsset"
    /\ args' = [org |-> org, repo |-> repo, id |-> id, name |-> name]
    /\ NoLoop
    /\ NoPull
    /\ UNCHANGED releases
    /\ UNCHANGED notReleases

\* Somebody else publishes a release for a tag that has none.
BackendPublishesRelease(tag, release) ==
    /\ pc = "idle"
    /\ releases[tag] = Nil
    /\ release.TagName \in {"", tag}
    /\ releases' = [releases EXCEPT ![tag] = Ptr(release)]
    /\ UNCHANGED <<op, args, calls, ret, given, pr>>
    /\ UNCHANGED forkVars
    /\ UNCHANGED notReleases

Init ==
    /\ repos = [k \in RepoKeys |-> Nil]
    /\ op = "none"
    /\ args = <<>>
    /\ calls = <<>>
    /\ ret = Return(Nil, NoErr)
    /\ pc = "idle"
    /\ elapsed = 0
    /\ sleeps = 0
    /\ polls = 0
    /\ pollAt = 0
    /\ prevEnd = 0
    /\ hooks = [k \in HookKeys |-> <<>>]
    /\ hookRequests = [k \in HookKeys |-> [u \in HookURLs |-> 0]]
    /\ given = Nil
    /\ pr = Nil
    /\ releases = [t \in ReleaseTags |-> Nil]

NextRepos ==
    \/ \E org \in Orgs, name \in RepoNames, private \in BOOLEAN, f1, f2 \in Faults :
          CreateRepository(org, name, private, f1, f2)
    \/ \E name \in RepoNames, dest \in Orgs, outcome \in ForkOutcomes :
          ForkRepository(UpstreamOrg, name, dest, outcome)
    \/ ForkSleep
    \/ \E fault \in Faults, latency \in 0..MaxLatency : ForkPoll(fault, latency)
    \/ BackendFinishesFork
    \/ \E org \in Orgs \cup {Username}, name \in RepoNames, fault \in Faults :
          ValidateRepositoryName(org, name, fault)

NextHooks ==
    \E data \in WebHookArguments, fList, fCreate \in HookFaults :
        CreateWebHook(data, fList, fCreate)

NextPulls ==
    \/ \E n \in 0..MaxPulls, failPage \in -1..(MaxPulls \div pageSize) :
          ListOpenPullRequests("acme", "r1", n, failPage)
    \/ \E p \in PullRequests, source \in GiteaPulls, fault \in Faults :
          UpdatePullRequestStatus(p, source, fault)
    \/ \E p \in PullRequests, fault \in Faults : MergePullRequest(p, "message", fault)
    \/ \E p \in PullRequests, fault \in Faults : AddPRComment(p, "comment", fault)
    \/ \E p \in PullRequests, statuses \in StatusResults, fault \in Faults :
          PullRequestLastCommitStatus(p, statuses, fault)
    \/ \E number \in 1..2, issue \in Issues, fault \in Faults :
          GetIssue("acme", "r1", number, issue, fault)

NextReleases ==
    \/ \E tag \in ReleaseTags, info \in ReleaseInfos, fFetch \in Faults,
          fWrite \in HookFaults :
          UpdateRelease("acme", "r1", tag, info, fFetch, fWrite)
    \/ \E tag \in ReleaseTags, info \in ReleaseInfos, fFetch \in Faults,
          fWrite \in HookFaults :
          UpdateReleaseStatus("acme", "r1", tag, info, fFetch, fWrite)
    \/ \E tag \in ReleaseTags, release \in PublishedReleases :
          BackendPublishesRelease(tag, release)
    \/ \E id \in ReleaseIDs, name \in AssetNames, outcome \in UploadOutcomes :
          UploadReleaseAsset("acme", "r1", id, name, outcome)

Next == NextRepos \/ NextHooks \/ NextPulls \/ NextReleases

\* The whole adapter.
Spec == Init /\ [][Next]_vars
\* The operations on repositories alone.
SpecRepos == Init /\ [][NextRepos]_vars
\* The operations on webhooks alone.
SpecHooks == Init /\ [][NextHooks]_vars
\* The operations on pull requests, commit statuses and issues alone.
SpecPulls == Init /\ [][NextPulls]_vars
\* The operations on releases alone.
SpecReleases == Init /\ [][NextReleases]_vars

(***************************************************************************)
(* Properties.                                                             *)
(***************************************************************************)
Failed(out) == out.err # NoErr
Found(out) == out.val # Nil /\ out.err = NoErr
OwnerOrUser(org) == IF org = "" THEN Username ELSE org
Apis == {calls[i].api : i \in 1..Len(calls)}

\* C1: CreateRepository issues exactly one create request: CreateOrgRepo under
\* org when org is non-empty (and then no CreateRepo under the user), CreateRepo
\* when org is empty; what it returns is the result or error of that request.
C1_CreateRepositoryOneRequest ==
    op = "CreateRepository" =>
        /\ Len(calls) = 1
        /\ args.org # "" => Apis = {"CreateOrgRepo"} /\ calls[1].path = <<args.org>>
        /\ args.org = "" => Apis = {"CreateRepo"}
        /\ Failed(calls[1].out) <=> ret.err # NoErr
        /\ ~Failed(calls[1].out) =>
               ret.val = Ptr(toGiteaRepo(args.name, Deref(calls[1].out.val)))

\* C2: in ForkRepository a CreateFork that succeeds is followed by no poll; after
\* "try again later" the polls are GetRepo(owner, name) with owner the
\* destination organisation or else the user; a poll that finds the repository
\* with no error is the last one, and its repository is returned with no error.
C2_ForkFirstSuccessWins ==
    op = "ForkRepository" =>
        /\ calls[1].api = "CreateFork"
        /\ ~Failed(calls[1].out) =>
               polls = 0 /\ sleeps = 0 /\ pc = "idle" /\ Len(calls) = 1
        /\ (ErrContains(calls[1].out.err, "try again later") /\ polls = 0) =>
               pc \in {"sleep", "poll"}
        /\ polls > 0 =>
               /\ ErrContains(calls[1].out.err, "try again later")
               /\ Len(calls) = 2
               /\ calls[2].api = "GetRepo"
               /\ calls[2].path = <<OwnerOrUser(args.destinationOrg), args.name>>
               /\ Found(calls[2].out) =>
                      /\ pc = "idle"
                      /\ ret = Return(Ptr(toGiteaRepo(args.name,
                                                      Deref(calls[2].out.val))), NoErr)
               /\ pc # "idle" => ~Found(calls[2].out)

\* C2's case: the fork is found by a poll that is not the first.
C2_Witness ==
    /\ op = "ForkRepository"
    /\ pc = "idle"
    /\ polls >= 2
    /\ Found(calls[2].out)
    /\ ret.val # Nil

\* C3: the polling loop of ForkRepository ends.  Every poll is issued 5 seconds
\* after the request before it returned (the first 5 seconds after the start);
\* there are at most 13 polls; the loop gives up at the first poll that fails
\* and returns more than one minute after the start, with the error of that
\* poll in the error returned; while it runs it can take its next step.  A
\* CreateFork error without "try again later" is returned with no poll and no
\* sleep.
C3_ForkPollingTerminates ==
    op = "ForkRepository" =>
        /\ polls <= 13
        /\ sleeps \in {polls, polls + 1}
        /\ pc = "sleep" => sleeps = polls /\ elapsed <= 60
        /\ pc = "poll" => sleeps = polls + 1 /\ elapsed <= 65
        /\ pc # "idle" =>
               ENABLED (ForkSleep \/ \E f \in Faults, l \in 0..MaxLatency : ForkPoll(f, l))
        /\ pc = "poll" => elapsed = prevEnd + 5
        /\ (polls > 0 /\ pc # "poll") => pollAt = prevEnd + 5
        /\ (polls = 1 /\ pc # "poll") => pollAt = 5
        /\ (polls > 0 /\ pc = "idle" /\ ~Found(calls[2].out)) =>
               /\ prevEnd <= 60
               /\ elapsed > 60
               /\ ret = Return(Nil, <<"Gave up waiting for Repository",
                                      OwnerOrUser(args.destinationOrg), args.name>>
                                    \o calls[2].out.err)
        /\ (Failed(calls[1].out) /\ ~ErrContains(calls[1].out.err, "try again later")) =>
               /\ pc = "idle" /\ polls = 0 /\ sleeps = 0 /\ elapsed = 0
               /\ Len(calls) = 1
               /\ ret.val = Nil
               /\ ret.err # NoErr
               /\ ret.err[1] = "Failed to fork repository"
               /\ ErrContains(ret.err, calls[1].out.err[1])

\* C3's case: no poll succeeded and the loop gave up after its 13th poll.
C3_Witness ==
    /\ op = "ForkRepository"
    /\ pc = "idle"
    /\ polls = 13
    /\ elapsed = 65
    /\ ret.err # NoErr

\* C8: ValidateRepositoryName returns nil exactly when the fetch answered 404,
\* an "already exists" error when the fetch succeeded, and the fetch's own
\* error for any other failure.
C8_ValidateRepositoryName ==
    op = "ValidateRepositoryName" =>
        LET out == calls[1].out
        IN  /\ Len(calls) = 1
            /\ calls[1].api = "GetRepo"
            /\ calls[1].path = <<args.org, args.name>>
            /\ ret.val = Nil
            /\ ~Failed(out) =>
                   ret.err = <<"Repository", args.org, args.name, "already exists">>
            /\ (Failed(out) /\ out.resp = 404) => ret.err = NoErr
            /\ (Failed(out) /\ out.resp # 404) => ret.err = out.err
            /\ ret.err = NoErr => ~HasRepo(repos, args.org, args.name)

\* C8's case: the fetch failed with no HTTP answer at all.
C8_Witness ==
    /\ op = "ValidateRepositoryName"
    /\ calls[1].out.resp = NilResp
    /\ ret.err = calls[1].out.err
    /\ ret.err # NoErr

\* The urls of the hooks of a list, and the repository CreateWebHook works on.
HookUrls(list) == {MapGet(list[i].Config, "url") : i \in 1..Len(list)}
HooksWithUrl(list, u) == {i \in 1..Len(list) : MapGet(list[i].Config, "url") = u}
WebHookKey == <<OwnerOrUser(args.Owner), args.Repo.Name>>

\* C4 as stated, for the urls that are not empty: at most one CreateRepoHook
\* request is ever issued for a repository and url, and a CreateWebHook call
\* made when a hook for the url exists issues no create request and returns
\* nil.
C4_AtMostOneCreateRequest ==
    /\ \A k \in HookKeys, u \in HookURLs \ {""} : hookRequests[k][u] <= 1
    /\ (/\ op = "CreateWebHook"
        /\ args.Repo.Name # ""
        /\ args.URL # ""
        /\ args.URL \in HookUrls(hooks[WebHookKey])
        /\ ~(Len(calls) = 2 /\ ~Failed(calls[2].out))) =>
           /\ "CreateRepoHook" \notin Apis
           /\ ret.err = NoErr

\* C4, amended: a repository never holds two hooks for one url (at most one
\* CreateRepoHook request per url succeeds), every hook comes from a request,
\* a call that lists a hook for its url issues no create request, changes
\* nothing and returns nil, a call whose listing fails returns that error
\* with no create request, and a create request is issued only for a url the
\* listing does not hold.
C4_AtMostOneHookPerURL ==
    /\ \A k \in HookKeys, u \in HookURLs :
          /\ Cardinality(HooksWithUrl(hooks[k], u)) <= 1
          /\ hookRequests[k][u] = 0 => HooksWithUrl(hooks[k], u) = {}
    /\ (op = "CreateWebHook" /\ Len(calls) >= 1) =>
          LET listed == calls[1].out
          IN  /\ calls[1].api = "ListRepoHooks"
              /\ calls[1].path = WebHookKey
              /\ Failed(listed) => Len(calls) = 1 /\ ret.err = listed.err
              /\ (~Failed(listed) /\ args.URL \in HookUrls(listed.val)) =>
                     /\ Len(calls) = 1
                     /\ ret.err = NoErr
                     /\ hooks[WebHookKey] = listed.val
              /\ Len(calls) = 2 =>
                     /\ calls[2].api = "CreateRepoHook"
                     /\ ~Failed(listed)
                     /\ args.URL \notin HookUrls(listed.val)
                     /\ MapGet(calls[2].body.Config, "url") = args.URL
                     /\ Failed(calls[2].out) <=> ret.err # NoErr
                     /\ Failed(calls[2].out) => hooks[WebHookKey] = listed.val

\* C4's case: a call for a url whose hook exists, after a create request for
\* it that failed and one that succeeded.
C4_Witness ==
    /\ op = "CreateWebHook"
    /\ args.URL = "u1"
    /\ Len(calls) = 1
    /\ ~Failed(calls[1].out)
    /\ "u1" \in HookUrls(calls[1].out.val)
    /\ hookRequests[WebHookKey]["u1"] = 2
    /\ ret.err = NoErr

C7_GetIssueAbsentOrFailed ==
    op = "GetIssue" =>
        LET out == calls[1].out
        IN  /\ Len(calls) = 1
            /\ calls[1].api = "GetIssue"
            /\ (Failed(out) /\ out.resp = 404) => ret = Return(Nil, NoErr)
            /\ (Failed(out) /\ out.resp # 404) => ret = Return(Nil, out.err)
            /\ ~Failed(out) => ret.val # Nil /\ ret.err = NoErr
            /\ ret = Return(Nil, NoErr) => given = Nil

\* C7's case: the issue does not exist and (nil, nil) is returned.
C7_Witness ==
    /\ op = "GetIssue"
    /\ given = Nil
    /\ calls[1].out.resp = 404
    /\ ret = Return(Nil, NoErr)

\* The states of a list of statuses that are not empty, in order.
RECURSIVE NonEmptyStates(_)
NonEmptyStates(results) ==
    IF results = <<>> THEN <<>>
    ELSE (IF results[1].State # "" THEN <<results[1].State>> ELSE <<>>)
         \o NonEmptyStates(Tail(results))

\* C9: with a LastCommitSha and a listing that succeeds,
\* PullRequestLastCommitStatus returns the first state, in the backend's
\* order, that is not empty, and returns "" with an error exactly when there
\* is none (the list is empty or all its states are).
C9_FirstNonEmptyStatus ==
    (/\ op = "PullRequestLastCommitStatus"
     /\ args.pr.LastCommitSha # ""
     /\ Len(calls) = 1
     /\ ~Failed(calls[1].out)) =>
        LET states == NonEmptyStates(calls[1].out.val)
        IN  /\ calls[1].out.val = given
            /\ calls[1].body.Ref = args.pr.LastCommitSha
            /\ states # <<>> => ret = Return(states[1], NoErr)
            /\ states = <<>> => ret.val = "" /\ ret.err # NoErr
            /\ ret.err # NoErr <=>
                  (given = <<>> \/ \A i \in 1..Len(given) : given[i].State = "")

\* C9's case: an empty state first, then two different states.
C9_Witness ==
    /\ op = "PullRequestLastCommitStatus"
    /\ Len(calls) = 1
    /\ given = <<[State |-> ""], [State |-> "failure"], [State |-> "success"]>>
    /\ ret = Return("failure", NoErr)

\* C10: UpdatePullRequestStatus, MergePullRequest and AddPRComment with a nil
\* Number, and PullRequestLastCommitStatus with an empty LastCommitSha, return
\* an error, issue no request and leave the pull request as it was passed.
C10_PreconditionsBeforeRequests ==
    /\ (op \in {"UpdatePullRequestStatus", "MergePullRequest", "AddPRComment"}
        /\ args.pr.Number = Nil) =>
           /\ ret.err # NoErr
           /\ calls = <<>>
           /\ pr = args.pr
    /\ (op = "PullRequestLastCommitStatus" /\ args.pr.LastCommitSha = "") =>
           /\ ret.err # NoErr
           /\ ret.val = ""
           /\ calls = <<>>
           /\ pr = args.pr

\* C10's case: a comment for a pull request with no number.
C10_Witness ==
    /\ op = "AddPRComment"
    /\ args.pr.Number = Nil
    /\ calls = <<>>
    /\ ret.err = <<"Missing Number for GitPullRequest">>

(***************************************************************************)
(* Releases.                                                               *)
(***************************************************************************)
\* What an edit must carry for a field: the backend's value when it is not
\* empty, the caller's otherwise.
KeptOrSupplied(current, supplied) == IF current # "" THEN current ELSE supplied

\* C5: UpdateRelease fetches the release of the tag; when the fetch reports
\* 404 it issues exactly one CreateRelease built from info and no edit; when
\* a release exists it issues exactly one EditRelease and no create, whose
\* title, tag name and note are the backend's when those are non-empty and
\* the caller's only when the backend's are empty; any other failure of the
\* fetch is returned with neither create nor edit issued.
C5_UpdateReleaseCreatesOrEdits ==
    op = "UpdateRelease" =>
        LET fetch == calls[1].out
            info  == args.releaseInfo
        IN  /\ Len(calls) >= 1
            /\ calls[1].api = "GetReleaseByTag"
            /\ calls[1].body.Tag = args.tag
            /\ (Failed(fetch) /\ fetch.resp # 404) =>
                   /\ Len(calls) = 1
                   /\ ret.err = fetch.err
            /\ (Failed(fetch) /\ fetch.resp = 404) =>
                   /\ Len(calls) = 2
                   /\ calls[2].api = "CreateRelease"
                   /\ calls[2].body = [TagName |-> info.TagName, Title |-> info.Name,
                                       Note |-> info.Body, IsDraft |-> FALSE,
                                       IsPrerelease |-> FALSE]
                   /\ ret.err = calls[2].out.err
            /\ Found(fetch) =>
                   LET release == Deref(fetch.val)
                   IN  /\ Len(calls) = 2
                       /\ calls[2].api = "EditRelease"
                       /\ calls[2].body.ID = release.ID
                       /\ calls[2].body.Option.Title =
                              KeptOrSupplied(release.Title, info.Name)
                       /\ calls[2].body.Option.TagName =
                              KeptOrSupplied(release.TagName, info.TagName)
                       /\ calls[2].body.Option.Note =
                              KeptOrSupplied(release.Note, info.Body)

\* An UpdateRelease on an existing release whose title is set and whose tag
\* name is empty, called with another title and a tag name: the edit issued
\* keeps the title and takes the caller's tag name.
C5_Witness ==
    /\ op = "UpdateRelease"
    /\ Len(calls) = 2
    /\ Found(calls[1].out)
    /\ Deref(calls[1].out.val).Title = "old title"
    /\ Deref(calls[1].out.val).TagName = ""
    /\ args.releaseInfo.Name = "new title"
    /\ args.releaseInfo.TagName = "v1"
    /\ calls[2].api = "EditRelease"
    /\ calls[2].body.Option.Title = "old title"
    /\ calls[2].body.Option.TagName = "v1"
    /\ ret.err = NoErr

\* C11: whenever UploadReleaseAsset returns a nil asset it returns an error
\* that is not nil, also when the client answered with neither an attachment
\* nor an error.
C11_NilAssetHasError ==
    op = "UploadReleaseAsset" => (ret.val = Nil => ret.err # NoErr)

\* C12: UpdateReleaseStatus on an existing release issues one EditRelease
\* that carries the backend's tag name, title and note as they are, and the
\* pre-release field only when info.PreRelease differs from the release's
\* (unset otherwise); after a call that succeeds the backend's pre-release
\* flag is info.PreRelease; when the fetch fails its error is returned and
\* no edit is issued.
C12_UpdateReleaseStatusEdit ==
    op = "UpdateReleaseStatus" =>
        LET fetch == calls[1].out
            info  == args.releaseInfo
        IN  /\ Len(calls) >= 1
            /\ calls[1].api = "GetReleaseByTag"
            /\ calls[1].body.Tag = args.tag
            /\ Failed(fetch) => Len(calls) = 1 /\ ret.err = fetch.err
            /\ ~Failed(fetch) =>
                   LET release == Deref(fetch.val)
                       option  == calls[2].body.Option
                   IN  /\ Len(calls) = 2
                       /\ calls[2].api = "EditRelease"
                       /\ calls[2].body.ID = release.ID
                       /\ option.TagName = release.TagName
                       /\ option.Title = release.Title
                       /\ option.Note = release.Note
                       /\ release.IsPrerelease # info.PreRelease =>
                              option.IsPrerelease = Ptr(info.PreRelease)
                       /\ release.IsPrerelease = info.PreRelease =>
                              option.IsPrerelease = Nil
                       /\ ret.err = calls[2].out.err
                       /\ ret.err = NoErr =>
                              /\ releases[args.tag] # Nil
                              /\ Deref(releases[args.tag]).IsPrerelease = info.PreRelease

\* C12's case: a release that is no pre-release is made one.
C12_Witness ==
    /\ op = "UpdateReleaseStatus"
    /\ Len(calls) = 2
    /\ ~Failed(calls[1].out)
    /\ ~Deref(calls[1].out.val).IsPrerelease
    /\ args.releaseInfo.PreRelease
    /\ calls[2].body.Option.IsPrerelease = Ptr(TRUE)
    /\ calls[2].body.Option.Title = "old title"
    /\ ret.err = NoErr
    /\ Deref(releases[args.tag]).IsPrerelease

\* C13: UpdateRelease leaves the pre-release flag of an existing release as
\* it is: after an UpdateRelease that fetched a release, the backend's flag for
\* the tag is the one fetched, so a flag UpdateReleaseStatus set to true is
\* still true.
C13_UpdateReleaseKeepsPreRelease ==
    (op = "UpdateRelease" /\ Found(calls[1].out)) =>
        /\ releases[args.tag] # Nil
        /\ Deref(releases[args.tag]).IsPrerelease =
               Deref(calls[1].out.val).IsPrerelease

(***************************************************************************)
(* CreateWebHook's arguments.                                              *)
(***************************************************************************)
\* C14: CreateWebHook with an empty data.Repo.Name returns "Missing property
\* Repo", and with a repo name but an empty data.URL returns "Missing property
\* URL"; in both cases it issues no ListRepoHooks or CreateRepoHook request.
C14_CreateWebHookValidates ==
    op = "CreateWebHook" =>
        /\ args.Repo.Name = "" =>
               /\ ret.err = <<"Missing property Repo">>
               /\ calls = <<>>
        /\ (args.Repo.Name # "" /\ args.URL = "") =>
               /\ ret.err = <<"Missing property URL">>
               /\ calls = <<>>

====
